---- MODULE Spec2Model ----
(***************************************************************************)
(* Interprocedural fixpoint computation of cwe_checker_rs                  *)
(* (analysis/interprocedural_fixpoint.rs): the node value model, the       *)
(* GeneralizedContext adapter (merge, update_edge), merge_option and the   *)
(* Computation facade, together with the generic worklist solver of        *)
(* analysis/fixpoint.rs that the facade drives.                            *)
(***************************************************************************)
EXTENDS Integers, Sequences, FiniteSets, TLC

VARIABLES
    graph,            \* the immutable control flow graph of the Context
    priority,         \* Computation.node_priority_list : node -> priority
    default_value,    \* Computation.default_value : Option<NodeValue>
    node_values,      \* Computation.node_values : node -> Option<NodeValue>
    worklist,         \* Computation.worklist : set of nodes not yet stabilized
    pc,               \* "idle" | "compute" | "bounded" | "aborted"
    max_steps,        \* argument of the running compute_with_max_steps
    steps,            \* its local per-node step counter
    non_stabilized,   \* its local set non_stabilized_nodes
    calls,            \* Context invocations of the last node update, in order
    last,             \* what the last step did (operation, node, values before)
    hist,             \* history: API calls made so far, values set and not yet processed
    probe             \* input/output of a direct call of a pure function

vars == <<graph, priority, default_value, node_values, worklist, pc, max_steps, steps,
          non_stabilized, calls, last, hist, probe>>

----------------------------------------------------------------------------
(* Bounds of the model *)

\* the value domain T of the modelled Context is 0..TMax (saturating)
TMax == 8
\* longest statement list of a block handed directly to update_edge
MaxDefs == 3
\* largest max_steps argument of compute_with_max_steps
MaxSteps == 1
\* number of different (node, value) pairs a driver hands to set_node_value
MaxSets == 2

----------------------------------------------------------------------------
(* Option<X>: None is the empty sequence, Some(x) the one-element sequence *)

None == <<>>
Some(x) == <<x>>
IsSome(o) == Len(o) = 1
IsNone(o) == Len(o) = 0
Unwrap(o) == o[1]

Min(a, b) == IF a <= b THEN a ELSE b
Max(a, b) == IF a >= b THEN a ELSE b

T == 0..TMax
OptionT == {None} \cup {Some(t) : t \in T}

(* enum NodeValue<T> *)
Value(t) == [kind |-> "Value", value |-> t]
CallReturnCombinator(c, r) ==
    [kind |-> "CallReturnCombinator", call |-> c, return_ |-> r]

IsValue(nv) == nv.kind = "Value"
IsCombinator(nv) == nv.kind = "CallReturnCombinator"

PlainValues == {Value(t) : t \in T}
SplitValues == {CallReturnCombinator(c, r) : c \in OptionT, r \in OptionT}
NodeValues == PlainValues \cup SplitValues

(* Result of an operation that may panic: ok with a value, or a panic.     *)
Ok(v) == [panic |-> FALSE, val |-> v]
Panic(msg) == [panic |-> TRUE, msg |-> msg]

----------------------------------------------------------------------------
(* The Context of the computation: T = integer, merge = max,               *)
(* update_call = identity, update_return = sum of the two parts (absent    *)
(* counted as 0); statements and jumps decide by their kind.               *)

DefTerms == {"nop", "inc", "gt3", "dead"}
JmpTerms == {"goto", "never"}
CallTerms == {"call_f", "call_g", "call_dead"}
ReturnTerms == {"ret_f", "ret_dead"}
ExternCallTerms == {"call_ext", "call_exit"}

context_merge(value1, value2) == Max(value1, value2)

context_update_def(value, def) ==
    CASE def = "nop" -> Some(value)
      [] def = "inc" -> Some(Min(value + 1, TMax))
      [] def = "gt3" -> IF value > 3 THEN Some(value) ELSE None
      [] OTHER -> None

context_update_jump(value, jump, untaken_conditional, target) ==
    IF jump = "never" THEN None ELSE Some(value)

context_update_call(value, call, target) ==
    IF call = "call_dead" THEN None ELSE Some(value)

context_update_return(value, value_before_call, call_term, return_term) ==
    IF return_term = "ret_dead" \/ call_term = "call_dead"
    THEN None
    ELSE Some(Min((IF IsSome(value) THEN Unwrap(value) ELSE 0)
                  + (IF IsSome(value_before_call)
                     THEN Unwrap(value_before_call) ELSE 0), TMax))

context_update_call_stub(value, call) ==
    IF call = "call_exit" THEN None ELSE Some(value)

(* One recorded invocation of a Context method.                            *)
CallDef(value, def, result) ==
    [fn |-> "update_def", value |-> value, def |-> def, result |-> result]
CallJump(value, jump, untaken, target, result) ==
    [fn |-> "update_jump", value |-> value, jump |-> jump,
     untaken |-> untaken, target |-> target, result |-> result]
CallCall(value, call, target, result) ==
    [fn |-> "update_call", value |-> value, call |-> call,
     target |-> target, result |-> result]
CallReturn(value, before, call_term, return_term, result) ==
    [fn |-> "update_return", value |-> value, value_before_call |-> before,
     call_term |-> call_term, return_term |-> return_term, result |-> result]
CallCallStub(value, call, result) ==
    [fn |-> "update_call_stub", value |-> value, call |-> call,
     result |-> result]

----------------------------------------------------------------------------
(* The graph: nodes and edges are numbered from 1.                         *)
(* A node is BlkStart(block), BlkEnd(block) or CallReturn{call, return_};  *)
(* an edge has its endpoints, its kind and the terms its kind carries.     *)

Blk(tid, defs, jmps) == [tid |-> tid, defs |-> defs, jmps |-> jmps]
BlkStart(blk) == [type |-> "BlkStart", block |-> blk]
BlkEnd(blk) == [type |-> "BlkEnd", block |-> blk]
CallReturnNode(call_blk, return_blk) ==
    [type |-> "CallReturn", call |-> call_blk, return_ |-> return_blk]

EdgeOf(src, dst, kind, term, untaken) ==
    [src |-> src, dst |-> dst, kind |-> kind, term |-> term,
     untaken |-> untaken]

EdgeKinds == {"Block", "Call", "CRCallStub", "CRReturnStub", "CRCombine",
              "ExternCallStub", "Jump"}

NodesOf(g) == DOMAIN g.nodes
EdgesOf(g) == DOMAIN g.edges
IsCombinatorNode(g, n) == g.nodes[n].type = "CallReturn"
IsBlockNode(g, n) == g.nodes[n].type \in {"BlkStart", "BlkEnd"}

----------------------------------------------------------------------------
(* an unwrap that takes the call part of a combinator value as the value  *)
unwrap_value_lenient(node_value) ==
    IF IsValue(node_value)
    THEN Ok(node_value.value)
    ELSE IF IsSome(node_value.call)
    THEN Ok(Unwrap(node_value.call))
    ELSE Panic("Unexpected node value type")

(* NodeValue::unwrap_value: the held T of a Value, a panic otherwise.      *)
unwrap_value(node_value) ==
    IF IsValue(node_value)
    THEN Ok(node_value.value)
    ELSE Panic("Unexpected node value type")

(* a merge of combinator values that reads the call part of the second    *)
(* value where it should read its return part                              *)
merge_crossed(val1, val2) ==
    CASE IsValue(val1) /\ IsValue(val2) ->
            Ok(Value(context_merge(val1.value, val2.value)))
      [] IsCombinator(val1) /\ IsCombinator(val2) ->
            Ok(CallReturnCombinator(
                   IF IsSome(val1.call) /\ IsSome(val2.call)
                   THEN Some(context_merge(Unwrap(val1.call), Unwrap(val2.call)))
                   ELSE IF IsSome(val1.call) THEN val1.call ELSE val2.call,
                   IF IsSome(val1.return_) /\ IsSome(val2.call)
                   THEN Some(context_merge(Unwrap(val1.return_),
                                           Unwrap(val2.call)))
                   ELSE IF IsSome(val1.return_) THEN val1.return_
                   ELSE val2.call))
      [] OTHER -> Panic("Malformed CFG in fixpoint computation")

(* merge_option losing a value whose counterpart on the right is absent    *)
merge_option_drop(opt1, opt2) ==
    CASE IsSome(opt1) /\ IsSome(opt2) ->
            Some(context_merge(Unwrap(opt1), Unwrap(opt2)))
      [] IsNone(opt1) /\ IsSome(opt2) -> Some(Unwrap(opt2))
      [] OTHER -> None

(* merge_option: (Some, Some) is merged, one Some is taken, else None.     *)
merge_option(opt1, opt2) ==
    CASE IsSome(opt1) /\ IsSome(opt2) ->
            Some(context_merge(Unwrap(opt1), Unwrap(opt2)))
      [] IsSome(opt1) /\ IsNone(opt2) -> Some(Unwrap(opt1))
      [] IsNone(opt1) /\ IsSome(opt2) -> Some(Unwrap(opt2))
      [] OTHER -> None

(* a merge of Plain values that is not idempotent: it never returns its   *)
(* second argument                                                         *)
merge_not_idempotent(val1, val2) ==
    IF IsValue(val1) /\ IsValue(val2)
    THEN Ok(Value((val2.value + 1) % (TMax + 1)))
    ELSE IF IsCombinator(val1) /\ IsCombinator(val2)
    THEN Ok(CallReturnCombinator(merge_option(val1.call, val2.call),
                                 merge_option(val1.return_, val2.return_)))
    ELSE Panic("Malformed CFG in fixpoint computation")

(* GeneralizedContext::merge                                               *)
merge(val1, val2) ==
    CASE IsValue(val1) /\ IsValue(val2) ->
            Ok(Value(context_merge(val1.value, val2.value)))
      [] IsCombinator(val1) /\ IsCombinator(val2) ->
            Ok(CallReturnCombinator(merge_option(val1.call, val2.call),
                                    merge_option(val1.return_, val2.return_)))
      [] OTHER -> Panic("Malformed CFG in fixpoint computation")

(* Result of an edge transition: a panic, or Option<NodeValue>, each with  *)
(* the Context invocations made on the way.                                *)
EdgeOk(v, log) == [panic |-> FALSE, val |-> v, calls |-> log]
EdgePanic(msg, log) == [panic |-> TRUE, msg |-> msg, calls |-> log]

(* Option::map(NodeValue::Value)                                           *)
MapValue(opt) == IF IsSome(opt) THEN Some(Value(Unwrap(opt))) ELSE None

(* a fold that skips a declining statement instead of stopping at it      *)
RECURSIVE fold_skipping(_, _, _, _)
fold_skipping(accum, defs, i, log) ==
    IF i > Len(defs)
    THEN [val |-> Some(accum), calls |-> log]
    ELSE LET r == context_update_def(accum, defs[i])
             log2 == Append(log, CallDef(accum, defs[i], r))
         IN fold_skipping(IF IsNone(r) THEN accum ELSE Unwrap(r),
                          defs, i + 1, log2)

(* defs.iter().try_fold(value, |accum, def| update_def(&accum, def))       *)
RECURSIVE try_fold(_, _, _, _)
try_fold(accum, defs, i, log) ==
    IF i > Len(defs)
    THEN [val |-> Some(accum), calls |-> log]
    ELSE LET r == context_update_def(accum, defs[i])
             log2 == Append(log, CallDef(accum, defs[i], r))
         IN IF IsNone(r)
            THEN [val |-> None, calls |-> log2]
            ELSE try_fold(Unwrap(r), defs, i + 1, log2)

update_edge_Block(g, node_value, edge) ==
    IF IsCombinatorNode(g, edge.src)
    THEN EdgePanic("get_block() is undefined for CallReturn nodes", <<>>)
    ELSE IF unwrap_value(node_value).panic
    THEN EdgePanic(unwrap_value(node_value).msg, <<>>)
    ELSE LET end_val == try_fold(unwrap_value(node_value).val,
                                 g.nodes[edge.src].block.defs, 1, <<>>)
         IN EdgeOk(MapValue(end_val.val), end_val.calls)

update_edge_Call(g, node_value, edge) ==
    IF unwrap_value(node_value).panic
    THEN EdgePanic(unwrap_value(node_value).msg, <<>>)
    ELSE LET r == context_update_call(unwrap_value(node_value).val, edge.term, edge.dst)
         IN EdgeOk(MapValue(r),
                   <<CallCall(unwrap_value(node_value).val, edge.term, edge.dst, r)>>)

(* a call stub edge that asks update_call_stub of the Context first       *)
update_edge_CRCallStub_consulting(g, node_value, edge) ==
    IF unwrap_value(node_value).panic
    THEN EdgePanic(unwrap_value(node_value).msg, <<>>)
    ELSE LET r == context_update_call_stub(unwrap_value(node_value).val,
                                           "call_exit")
         IN EdgeOk(IF IsSome(r)
                   THEN Some(CallReturnCombinator(r, None))
                   ELSE None,
                   <<CallCallStub(unwrap_value(node_value).val, "call_exit", r)>>)

update_edge_CRCallStub(g, node_value, edge) ==
    IF unwrap_value(node_value).panic
    THEN EdgePanic(unwrap_value(node_value).msg, <<>>)
    ELSE EdgeOk(Some(CallReturnCombinator(Some(unwrap_value(node_value).val), None)),
                <<>>)

(* a return stub edge that files its value under the call part            *)
update_edge_CRReturnStub_as_call(g, node_value, edge) ==
    IF unwrap_value(node_value).panic
    THEN EdgePanic(unwrap_value(node_value).msg, <<>>)
    ELSE EdgeOk(Some(CallReturnCombinator(Some(unwrap_value(node_value).val), None)),
                <<>>)

(* a return stub edge that yields a Split value without any part          *)
update_edge_CRReturnStub_empty(g, node_value, edge) ==
    IF unwrap_value(node_value).panic
    THEN EdgePanic(unwrap_value(node_value).msg, <<>>)
    ELSE EdgeOk(Some(CallReturnCombinator(None, None)), <<>>)

update_edge_CRReturnStub(g, node_value, edge) ==
    IF unwrap_value(node_value).panic
    THEN EdgePanic(unwrap_value(node_value).msg, <<>>)
    ELSE EdgeOk(Some(CallReturnCombinator(None, Some(unwrap_value(node_value).val))),
                <<>>)

(* a combine edge that takes a Value at the combinator as its call part   *)
update_edge_CRCombine_coercing(g, node_value, edge) ==
    LET return_from_jmp == g.nodes[edge.src].return_.jmps[1]
        call == IF IsValue(node_value)
                THEN Some(unwrap_value(node_value).val) ELSE node_value.call
        return_ == IF IsValue(node_value) THEN None ELSE node_value.return_
        r == context_update_return(return_, call, edge.term, return_from_jmp)
    IN EdgeOk(MapValue(r),
              <<CallReturn(return_, call, edge.term, return_from_jmp, r)>>)

(* a combine edge handing the two parts to update_return in swapped order *)
update_edge_CRCombine_swapped(g, node_value, edge) ==
    IF IsValue(node_value)
    THEN EdgePanic("Unexpected interprocedural fixpoint graph state", <<>>)
    ELSE LET return_from_jmp == g.nodes[edge.src].return_.jmps[1]
             r == context_update_return(node_value.call, node_value.return_,
                                        edge.term, return_from_jmp)
         IN EdgeOk(MapValue(r),
                   <<CallReturn(node_value.call, node_value.return_,
                                edge.term, return_from_jmp, r)>>)

(* a combine edge that hands the return part over as value_before_call    *)
update_edge_CRCombine_return_as_before(g, node_value, edge) ==
    IF IsValue(node_value)
    THEN EdgePanic("Unexpected interprocedural fixpoint graph state", <<>>)
    ELSE IF ~IsCombinatorNode(g, edge.src)
    THEN EdgePanic("Malformed Control flow graph", <<>>)
    ELSE LET return_from_jmp == g.nodes[edge.src].return_.jmps[1]
             r == context_update_return(node_value.return_, node_value.return_,
                                        edge.term, return_from_jmp)
         IN EdgeOk(MapValue(r),
                   <<CallReturn(node_value.return_, node_value.return_,
                                edge.term, return_from_jmp, r)>>)

(* a combine edge that yields the top of the domain while the call part   *)
(* is absent                                                               *)
update_edge_CRCombine_top_without_call(g, node_value, edge) ==
    IF IsValue(node_value)
    THEN EdgePanic("Unexpected interprocedural fixpoint graph state", <<>>)
    ELSE IF ~IsCombinatorNode(g, edge.src)
    THEN EdgePanic("Malformed Control flow graph", <<>>)
    ELSE LET return_from_jmp == g.nodes[edge.src].return_.jmps[1]
             r == IF IsNone(node_value.call)
                  THEN Some(TMax)
                  ELSE context_update_return(node_value.return_, node_value.call,
                                             edge.term, return_from_jmp)
         IN EdgeOk(MapValue(r),
                   <<CallReturn(node_value.return_, node_value.call,
                                edge.term, return_from_jmp, r)>>)

update_edge_CRCombine(g, node_value, edge) ==
    IF IsValue(node_value)
    THEN EdgePanic("Unexpected interprocedural fixpoint graph state", <<>>)
    ELSE IF ~IsCombinatorNode(g, edge.src)
    THEN EdgePanic("Malformed Control flow graph", <<>>)
    ELSE LET return_from_block == g.nodes[edge.src].return_
             return_from_jmp == return_from_block.jmps[1]
             r == context_update_return(node_value.return_, node_value.call,
                                        edge.term, return_from_jmp)
         IN EdgeOk(MapValue(r),
                   <<CallReturn(node_value.return_, node_value.call,
                                edge.term, return_from_jmp, r)>>)

(* an extern call stub edge that passes the source value on when          *)
(* update_call_stub declines                                               *)
update_edge_ExternCallStub_passing(g, node_value, edge) ==
    IF unwrap_value(node_value).panic
    THEN EdgePanic(unwrap_value(node_value).msg, <<>>)
    ELSE LET r == context_update_call_stub(unwrap_value(node_value).val, edge.term)
         IN EdgeOk(Some(node_value),
                   <<CallCallStub(unwrap_value(node_value).val, edge.term, r)>>)

update_edge_ExternCallStub(g, node_value, edge) ==
    IF unwrap_value(node_value).panic
    THEN EdgePanic(unwrap_value(node_value).msg, <<>>)
    ELSE LET r == context_update_call_stub(unwrap_value(node_value).val, edge.term)
         IN EdgeOk(MapValue(r), <<CallCallStub(unwrap_value(node_value).val, edge.term, r)>>)

(* a jump edge that passes the value on whatever update_jump returns      *)
update_edge_Jump_always_taken(g, node_value, edge) ==
    IF unwrap_value(node_value).panic
    THEN EdgePanic(unwrap_value(node_value).msg, <<>>)
    ELSE EdgeOk(MapValue(Some(unwrap_value(node_value).val)), <<>>)

update_edge_Jump(g, node_value, edge) ==
    IF unwrap_value(node_value).panic
    THEN EdgePanic(unwrap_value(node_value).msg, <<>>)
    ELSE IF IsCombinatorNode(g, edge.dst)
    THEN EdgePanic("get_block() is undefined for CallReturn nodes", <<>>)
    ELSE LET target == g.nodes[edge.dst].block.tid
             r == context_update_jump(unwrap_value(node_value).val, edge.term,
                                      edge.untaken, target)
         IN EdgeOk(MapValue(r),
                   <<CallJump(unwrap_value(node_value).val, edge.term, edge.untaken,
                              target, r)>>)

(* GeneralizedContext::update_edge: dispatch on the kind of the edge.      *)
update_edge(g, node_value, e) ==
    LET edge == g.edges[e]
    IN CASE edge.kind = "Block" -> update_edge_Block(g, node_value, edge)
         [] edge.kind = "Call" -> update_edge_Call(g, node_value, edge)
         [] edge.kind = "CRCallStub" ->
                update_edge_CRCallStub(g, node_value, edge)
         [] edge.kind = "CRReturnStub" ->
                update_edge_CRReturnStub(g, node_value, edge)
         [] edge.kind = "CRCombine" ->
                update_edge_CRCombine(g, node_value, edge)
         [] edge.kind = "ExternCallStub" ->
                update_edge_ExternCallStub(g, node_value, edge)
         [] edge.kind = "Jump" -> update_edge_Jump(g, node_value, edge)

----------------------------------------------------------------------------
(* The generic worklist solver (fixpoint::Computation) that the facade     *)
(* owns.  A solver state st holds node_values and worklist, whether a      *)
(* panic has ended the run, the Context invocations made (calls) and the   *)
(* edges traversed (trace).                                                *)

SolverState(nv, wl) ==
    [node_values |-> nv, worklist |-> wl, panic |-> FALSE,
     calls |-> <<>>, trace |-> <<>>]

solver_get_node_value(nv, dflt, node) ==
    IF IsSome(nv[node]) THEN nv[node] ELSE dflt

solver_set_node_value(st, node, value) ==
    [st EXCEPT !.node_values[node] = Some(value),
               !.worklist = @ \cup {node}]

solver_merge_node_value(st, node, value) ==
    IF IsSome(st.node_values[node])
    THEN LET old_value == Unwrap(st.node_values[node])
             merged_value == merge(value, old_value)
         IN IF merged_value.panic
            THEN [st EXCEPT !.panic = TRUE]
            ELSE IF merged_value.val # old_value
            THEN solver_set_node_value(st, node, merged_value.val)
            ELSE st
    ELSE solver_set_node_value(st, node, value)

TraceEntry(e, start_val, r) ==
    [edge |-> e, value |-> start_val, panic |-> r.panic,
     result |-> IF r.panic THEN None ELSE r.val]

(* r is the result of the one call of update_edge for the edge            *)
solver_update_edge(g, st, e) ==
    LET start_node == g.edges[e].src
        end_node == g.edges[e].dst
    IN IF IsSome(st.node_values[start_node])
       THEN LET start_val == Unwrap(st.node_values[start_node])
            IN CHOOSE out \in
                   {LET st2 == [st EXCEPT
                                   !.calls = @ \o r.calls,
                                   !.trace = Append(@, TraceEntry(e, start_val, r))]
                    IN IF r.panic
                       THEN [st2 EXCEPT !.panic = TRUE]
                       ELSE IF IsSome(r.val)
                       THEN solver_merge_node_value(st2, end_node, Unwrap(r.val))
                       ELSE st2 : r \in {update_edge(g, start_val, e)}} : TRUE
       ELSE st

(* the outgoing edges of a node, in edge order *)
OutEdges(g, node) ==
    SelectSeq([i \in 1..Len(g.edges) |-> i], LAMBDA e : g.edges[e].src = node)

(* the edges of a node are updated one after the other; st2 is the solver *)
(* state after edge i, evaluated once                                      *)
RECURSIVE update_edges(_, _, _, _)
update_edges(g, st, edges, i) ==
    IF i > Len(edges) \/ st.panic
    THEN st
    ELSE CHOOSE out \in {update_edges(g, st2, edges, i + 1) :
                             st2 \in {solver_update_edge(g, st, edges[i])}} : TRUE

solver_update_node(g, st, node) == update_edges(g, st, OutEdges(g, node), 1)

solver_has_stabilized(wl) == wl = {}

(* worklist.iter().next_back(): the entry of the highest priority          *)
next_back(wl, prio) == CHOOSE n \in wl : \A m \in wl : prio[m] <= prio[n]

----------------------------------------------------------------------------
(* The Computation facade.                                                 *)

(* Computation::new: the default value becomes a Value default.            *)
new_default(default_t) == MapValue(default_t)

(* has_stabilized reporting a non-empty worklist                          *)
has_stabilized_inverted == ~solver_has_stabilized(worklist)

(* Computation::has_stabilized                                             *)
has_stabilized == solver_has_stabilized(worklist)

(* get_node_value preferring the default value to the stored one          *)
get_node_value_default_first(node) ==
    IF IsSome(default_value) THEN default_value ELSE node_values[node]

(* Computation::get_node_value                                             *)
get_node_value(node) == solver_get_node_value(node_values, default_value, node)

(* a step bound that is off by one                                        *)
bounded_steps_plus_one(n) == n + 1

(* the step bound Computation::compute_with_max_steps hands to the solver  *)
bounded_steps(n) == n

----------------------------------------------------------------------------
(* Graphs the computation runs on, each with the (node, value) pairs a     *)
(* driver hands to set_node_value on it.                                   *)

SeedT == {3, 5}
SeedValues ==
    {Value(t) : t \in SeedT} \cup {CallReturnCombinator(Some(5), None)}

blk_caller == Blk("blk_caller", <<"inc", "nop">>, <<"call_f">>)
blk_callee == Blk("blk_callee", <<"nop">>, <<"ret_f", "goto">>)
blk_post == Blk("blk_post", <<"gt3", "inc">>, <<"call_ext">>)
blk_exit == Blk("blk_exit", <<>>, <<"goto">>)

(* caller call site -> call -> callee entry; callee exit -> return stub -> *)
(* combinator <- call stub <- call site; combinator -> combine -> post     *)
GraphE2E ==
    [nodes |-> << BlkEnd(blk_caller),
                  BlkStart(blk_callee),
                  BlkEnd(blk_callee),
                  CallReturnNode(blk_caller, blk_callee),
                  BlkStart(blk_post) >>,
     edges |-> << EdgeOf(1, 2, "Call", "call_f", None),
                  EdgeOf(1, 4, "CRCallStub", "", None),
                  EdgeOf(3, 4, "CRReturnStub", "", None),
                  EdgeOf(4, 5, "CRCombine", "call_f", None) >>,
     seeds |-> {1, 3, 4, 5} \X SeedValues]

(* a caller with a loop around an internal call followed by an external    *)
(* call: every kind of edge occurs                                         *)
GraphLoop ==
    [nodes |-> << BlkStart(blk_caller),
                  BlkEnd(blk_caller),
                  BlkStart(blk_callee),
                  BlkEnd(blk_callee),
                  CallReturnNode(blk_caller, blk_callee),
                  BlkStart(blk_post),
                  BlkEnd(blk_post),
                  BlkStart(blk_exit) >>,
     edges |-> << EdgeOf(1, 2, "Block", "", None),
                  EdgeOf(2, 3, "Call", "call_f", None),
                  EdgeOf(2, 5, "CRCallStub", "", None),
                  EdgeOf(3, 4, "Block", "", None),
                  EdgeOf(4, 5, "CRReturnStub", "", None),
                  EdgeOf(5, 6, "CRCombine", "call_f", None),
                  EdgeOf(6, 7, "Block", "", None),
                  EdgeOf(7, 8, "ExternCallStub", "call_ext", None),
                  EdgeOf(7, 1, "Jump", "goto", Some("never")),
                  EdgeOf(7, 8, "Jump", "never", Some("goto")) >>,
     seeds |-> {<<1, Value(5)>>,
                <<1, CallReturnCombinator(Some(5), None)>>,
                <<5, Value(5)>>,
                <<5, CallReturnCombinator(Some(5), None)>>,
                <<6, Value(3)>>,
                <<6, Value(5)>>}]

blk_a == Blk("blk_a", <<"nop">>, <<"goto", "goto">>)
blk_b == Blk("blk_b", <<"gt3", "inc">>, <<"goto">>)
blk_c == Blk("blk_c", <<"nop">>, <<"goto", "never">>)
blk_d == Blk("blk_d", <<"inc", "dead">>, <<>>)

(* one procedure without calls: a loop through blk_a and blk_c, a branch   *)
(* through blk_b that joins the loop, and an exit that is never taken      *)
GraphIntra ==
    [nodes |-> << BlkStart(blk_a),
                  BlkEnd(blk_a),
                  BlkStart(blk_b),
                  BlkEnd(blk_b),
                  BlkStart(blk_c),
                  BlkEnd(blk_c),
                  BlkStart(blk_d),
                  BlkEnd(blk_d) >>,
     edges |-> << EdgeOf(1, 2, "Block", "", None),
                  EdgeOf(2, 3, "Jump", "goto", Some("goto")),
                  EdgeOf(2, 5, "Jump", "goto", None),
                  EdgeOf(3, 4, "Block", "", None),
                  EdgeOf(4, 7, "Jump", "goto", None),
                  EdgeOf(5, 6, "Block", "", None),
                  EdgeOf(6, 1, "Jump", "goto", Some("never")),
                  EdgeOf(6, 7, "Jump", "never", Some("goto")),
                  EdgeOf(7, 8, "Block", "", None) >>,
     seeds |-> {<<1, Value(3)>>, <<1, Value(5)>>, <<3, Value(5)>>,
                <<5, Value(3)>>, <<5, Value(5)>>}]

blk_site1 == Blk("blk_site1", <<"nop">>, <<"call_f">>)
blk_site2 == Blk("blk_site2", <<"nop">>, <<"call_g">>)
blk_post1 == Blk("blk_post1", <<"nop">>, <<>>)
blk_post2 == Blk("blk_post2", <<"nop">>, <<>>)

(* two call sites of the same callee, each with its own combinator node    *)
(* and its own post-call node                                              *)
GraphTwoSites ==
    [nodes |-> << BlkEnd(blk_site1),
                  BlkEnd(blk_site2),
                  BlkStart(blk_callee),
                  BlkEnd(blk_callee),
                  CallReturnNode(blk_site1, blk_callee),
                  CallReturnNode(blk_site2, blk_callee),
                  BlkStart(blk_post1),
                  BlkStart(blk_post2) >>,
     edges |-> << EdgeOf(1, 3, "Call", "call_f", None),
                  EdgeOf(1, 5, "CRCallStub", "", None),
                  EdgeOf(2, 3, "Call", "call_g", None),
                  EdgeOf(2, 6, "CRCallStub", "", None),
                  EdgeOf(3, 4, "Block", "", None),
                  EdgeOf(4, 5, "CRReturnStub", "", None),
                  EdgeOf(4, 6, "CRReturnStub", "", None),
                  EdgeOf(5, 7, "CRCombine", "call_f", None),
                  EdgeOf(6, 8, "CRCombine", "call_g", None) >>,
     seeds |-> {<<1, Value(1)>>, <<2, Value(2)>>, <<2, Value(1)>>,
                <<4, Value(3)>>}]

blk_guard == Blk("blk_guard", <<"gt3", "inc">>, <<"call_dead">>)
blk_noret == Blk("blk_noret", <<"nop">>, <<"ret_dead">>)
blk_last == Blk("blk_last", <<"nop">>, <<"call_exit", "goto", "never">>)

(* a graph on which every kind of transition declines: the guard block     *)
(* for small values, the call, the return of the callee, the external      *)
(* call and one of the two jumps out of the last block                     *)
GraphDeclines ==
    [nodes |-> << BlkStart(blk_guard),
                  BlkEnd(blk_guard),
                  BlkStart(blk_noret),
                  BlkEnd(blk_noret),
                  CallReturnNode(blk_guard, blk_noret),
                  BlkStart(blk_last),
                  BlkEnd(blk_last),
                  BlkStart(blk_exit) >>,
     edges |-> << EdgeOf(1, 2, "Block", "", None),
                  EdgeOf(2, 3, "Call", "call_dead", None),
                  EdgeOf(2, 5, "CRCallStub", "", None),
                  EdgeOf(3, 4, "Block", "", None),
                  EdgeOf(4, 5, "CRReturnStub", "", None),
                  EdgeOf(5, 6, "CRCombine", "call_f", None),
                  EdgeOf(6, 7, "Block", "", None),
                  EdgeOf(7, 8, "ExternCallStub", "call_exit", None),
                  EdgeOf(7, 1, "Jump", "goto", Some("never")),
                  EdgeOf(7, 8, "Jump", "never", Some("goto")) >>,
     seeds |-> {<<1, Value(3)>>, <<1, Value(5)>>, <<3, Value(5)>>,
                <<6, Value(3)>>, <<8, Value(5)>>}]

blk_rec == Blk("blk_rec", <<"inc">>, <<"call_f", "goto">>)
blk_rec_exit == Blk("blk_rec_exit", <<"nop">>, <<"ret_f">>)

(* a procedure that calls itself: its call site calls its own entry, and   *)
(* its exit block, which is also the block after the call, returns to the  *)
(* combinator of that call site                                            *)
GraphRecursion ==
    [nodes |-> << BlkStart(blk_rec),
                  BlkEnd(blk_rec),
                  CallReturnNode(blk_rec, blk_rec_exit),
                  BlkStart(blk_rec_exit),
                  BlkEnd(blk_rec_exit) >>,
     edges |-> << EdgeOf(1, 2, "Block", "", None),
                  EdgeOf(2, 1, "Call", "call_f", None),
                  EdgeOf(2, 3, "CRCallStub", "", None),
                  EdgeOf(2, 4, "Jump", "goto", None),
                  EdgeOf(3, 4, "CRCombine", "call_f", None),
                  EdgeOf(4, 5, "Block", "", None),
                  EdgeOf(5, 3, "CRReturnStub", "", None) >>,
     seeds |-> {<<1, Value(1)>>, <<4, Value(1)>>,
                <<3, CallReturnCombinator(Some(5), None)>>}]

(* the two-procedure graph, seeded at the call site, at the callee's exit, *)
(* at the combinator and after the call                                    *)
GraphOrder ==
    [GraphE2E EXCEPT
        !.seeds = {<<1, Value(3)>>, <<3, Value(3)>>, <<3, Value(5)>>,
                   <<5, Value(3)>>,
                   <<4, CallReturnCombinator(Some(5), None)>>}]

(* node_priority_list as Computation::new derives it from the order of    *)
(* the nodes: the nodes of the graph in sorted order, or in its reverse    *)
Priorities(g) ==
    {[n \in NodesOf(g) |-> n], [n \in NodesOf(g) |-> Len(g.nodes) + 1 - n]}

(* a graph as the graph module builds it: stub edges lead into combinator  *)
(* nodes only, combine edges lead out of them only                         *)
WellFormed(g) ==
    \A e \in EdgesOf(g) :
        LET edge == g.edges[e]
        IN /\ IsCombinatorNode(g, edge.dst)
                <=> edge.kind \in {"CRCallStub", "CRReturnStub"}
           /\ IsCombinatorNode(g, edge.src) <=> edge.kind = "CRCombine"

----------------------------------------------------------------------------
(* the default values a driver constructs the Computation with             *)
DefaultT == {3}

NoProbe == [op |-> "none"]
NoSteps == [n \in {} |-> 0]
ZeroSteps(g) == [n \in NodesOf(g) |-> 0]
Last(op, node, trace) == [op |-> op, node |-> node, trace |-> trace]

(* Computation::new(problem, default_value) on one of the graphs gs        *)
New(gs) ==
    /\ graph \in gs
    /\ priority \in Priorities(graph)
    /\ \E d \in {None} \cup {Some(t) : t \in DefaultT} :
           default_value = new_default(d)
    /\ node_values = [n \in NodesOf(graph) |-> None]
    /\ worklist = IF IsSome(default_value) THEN NodesOf(graph) ELSE {}
    /\ pc = "idle"
    /\ max_steps = 0
    /\ steps = NoSteps
    /\ non_stabilized = {}
    /\ calls = <<>>
    /\ last = Last("new", 0, <<>>)
    /\ hist = [compute_returned |-> FALSE, run_started |-> FALSE,
               seeds |-> {}, set_after_run |-> FALSE,
               updates |-> ZeroSteps(graph), requested |-> 0,
               pending |-> [n \in NodesOf(graph) |-> None]]
    /\ probe = NoProbe

Init == New({GraphLoop})

InitE2E == New({GraphE2E})

InitIntra == New({GraphIntra})

InitTwoSites == New({GraphTwoSites})

InitDeclines == New({GraphDeclines})

InitRecursion == New({GraphRecursion})

InitOrder == New({GraphOrder})

(* Computation::set_node_value(node, value)                                *)
SetNodeValue(node, value) ==
    /\ pc = "idle"
    /\ Cardinality(hist.seeds \cup {<<node, value>>}) <= MaxSets
    /\ LET st == solver_set_node_value(SolverState(node_values, worklist),
                                       node, value)
       IN /\ node_values' = st.node_values
          /\ worklist' = st.worklist
    /\ calls' = <<>>
    /\ last' = Last("set_node_value", node, <<>>)
    /\ hist' = [hist EXCEPT !.seeds = @ \cup {<<node, value>>},
                            !.set_after_run = @ \/ hist.run_started,
                            !.pending[node] = Some(value)]
    /\ UNCHANGED <<graph, priority, default_value, pc, max_steps, steps,
                   non_stabilized, probe>>

(* the state after one solver_update_node of a run                         *)
ApplyUpdate(node, wl) ==
    \E st \in {solver_update_node(graph, SolverState(node_values, wl), node)} :
       /\ node_values' = st.node_values
       /\ worklist' = st.worklist
       /\ calls' = st.calls
       /\ last' = Last("update_node", node, st.trace)
       /\ pc' = IF st.panic THEN "aborted" ELSE pc

(* Computation::compute: entry, one turn of the worklist loop, return      *)
ComputeStart ==
    /\ pc = "idle"
    /\ pc' = "compute"
    /\ calls' = <<>>
    /\ last' = Last("compute", 0, <<>>)
    /\ hist' = [hist EXCEPT !.run_started = TRUE]
    /\ UNCHANGED <<graph, priority, default_value, node_values, worklist, max_steps,
                   steps, non_stabilized, probe>>

ComputeUpdateNode ==
    /\ pc = "compute"
    /\ worklist # {}
    /\ LET node == next_back(worklist, priority)
       IN /\ ApplyUpdate(node, worklist \ {node})
          /\ hist' = [hist EXCEPT !.pending[node] = None]
    /\ UNCHANGED <<graph, priority, default_value, max_steps, steps, non_stabilized,
                   probe>>

ComputeReturn ==
    /\ pc = "compute"
    /\ worklist = {}
    /\ pc' = "idle"
    /\ calls' = <<>>
    /\ last' = Last("compute_return", 0, <<>>)
    /\ hist' = [hist EXCEPT !.compute_returned = TRUE]
    /\ UNCHANGED <<graph, priority, default_value, node_values, worklist, max_steps,
                   steps, non_stabilized, probe>>

(* Computation::compute_with_max_steps(n)                                  *)
BoundedStart(n) ==
    /\ pc = "idle"
    /\ pc' = "bounded"
    /\ max_steps' = bounded_steps(n)
    /\ steps' = ZeroSteps(graph)
    /\ non_stabilized' = {}
    /\ calls' = <<>>
    /\ last' = Last("compute_with_max_steps", 0, <<>>)
    /\ hist' = [hist EXCEPT !.run_started = TRUE, !.requested = n]
    /\ UNCHANGED <<graph, priority, default_value, node_values, worklist, probe>>

BoundedUpdateNode ==
    /\ pc = "bounded"
    /\ worklist # {}
    /\ LET node == next_back(worklist, priority)
       IN  /\ steps[node] < max_steps
           /\ steps' = [steps EXCEPT ![node] = @ + 1]
           /\ hist' = [hist EXCEPT !.updates[node] = @ + 1,
                                   !.pending[node] = None]
           /\ ApplyUpdate(node, worklist \ {node})
    /\ UNCHANGED <<graph, priority, default_value, max_steps, non_stabilized, probe>>

BoundedSkipNode ==
    /\ pc = "bounded"
    /\ worklist # {}
    /\ LET node == next_back(worklist, priority)
       IN  /\ ~(steps[node] < max_steps)
           /\ non_stabilized' = non_stabilized \cup {node}
           /\ worklist' = worklist \ {node}
           /\ last' = Last("skip_node", node, <<>>)
    /\ calls' = <<>>
    /\ UNCHANGED <<graph, priority, default_value, node_values, pc, max_steps, steps,
                   hist, probe>>

BoundedReturn ==
    /\ pc = "bounded"
    /\ worklist = {}
    /\ worklist' = non_stabilized
    /\ pc' = "idle"
    /\ steps' = NoSteps
    /\ non_stabilized' = {}
    /\ max_steps' = 0
    /\ calls' = <<>>
    /\ last' = Last("bounded_return", 0, <<>>)
    /\ hist' = [hist EXCEPT !.updates = ZeroSteps(graph), !.requested = 0]
    /\ UNCHANGED <<graph, priority, default_value, node_values, probe>>

Next ==
    \/ \E seed \in graph.seeds : SetNodeValue(seed[1], seed[2])
    \/ ComputeStart
    \/ ComputeUpdateNode
    \/ ComputeReturn
    \/ \E n \in 0..MaxSteps : BoundedStart(n)
    \/ BoundedUpdateNode
    \/ BoundedSkipNode
    \/ BoundedReturn

Spec == Init /\ [][Next]_vars

SpecE2E == InitE2E /\ [][Next]_vars

SpecIntra == InitIntra /\ [][Next]_vars

SpecTwoSites == InitTwoSites /\ [][Next]_vars

SpecDeclines == InitDeclines /\ [][Next]_vars

(* a driver that seeds node values and calls compute() only                *)
NextCompute ==
    \/ \E seed \in graph.seeds : SetNodeValue(seed[1], seed[2])
    \/ ComputeStart
    \/ ComputeUpdateNode
    \/ ComputeReturn

SpecOrder == InitOrder /\ [][NextCompute]_vars

(* compute() runs its loop to the end once it was called                   *)
FairSpecRecursion ==
    /\ InitRecursion
    /\ [][NextCompute]_vars
    /\ WF_vars(ComputeUpdateNode)
    /\ WF_vars(ComputeReturn)

----------------------------------------------------------------------------
(* Direct calls of the pure functions of the adapter, on every input of    *)
(* the bounded domain.                                                     *)

RECURSIVE SeqsUpTo(_, _)
SeqsUpTo(S, n) ==
    IF n = 0
    THEN {<<>>}
    ELSE LET shorter == SeqsUpTo(S, n - 1)
         IN shorter \cup {Append(q, x) : q \in shorter, x \in S}

DefSeqs == SeqsUpTo(DefTerms, MaxDefs)

(* a graph of one edge 1 -> 2 of the given kind between the given nodes    *)
OneEdgeGraph(src_node, dst_node, kind, term, untaken) ==
    [nodes |-> <<src_node, dst_node>>,
     edges |-> <<EdgeOf(1, 2, kind, term, untaken)>>,
     seeds |-> {}]

ProbeBlk(defs) == Blk("blk_probe", defs, <<"goto">>)
ProbeReturnBlks ==
    {Blk("blk_ret", <<>>, jmps) :
        jmps \in {<<"ret_f">>, <<"ret_dead">>, <<"ret_f", "ret_dead">>,
                  <<"ret_dead", "ret_f">>}}
ProbeTarget == BlkStart(Blk("blk_target", <<>>, <<"goto">>))

ProbeGraphs ==
    {OneEdgeGraph(BlkStart(ProbeBlk(defs)), BlkEnd(ProbeBlk(defs)),
                  "Block", "", None) : defs \in DefSeqs}
    \cup {OneEdgeGraph(BlkEnd(ProbeBlk(<<>>)), ProbeTarget, "Call", c, None) :
              c \in CallTerms}
    \cup {OneEdgeGraph(BlkEnd(ProbeBlk(<<>>)),
                       CallReturnNode(ProbeBlk(<<>>), rb), k, "", None) :
              rb \in ProbeReturnBlks, k \in {"CRCallStub", "CRReturnStub"}}
    \cup {OneEdgeGraph(CallReturnNode(ProbeBlk(<<>>), rb), ProbeTarget,
                       "CRCombine", c, None) :
              rb \in ProbeReturnBlks, c \in CallTerms}
    \cup {OneEdgeGraph(BlkEnd(ProbeBlk(<<>>)), ProbeTarget,
                       "ExternCallStub", c, None) : c \in ExternCallTerms}
    \cup {OneEdgeGraph(BlkEnd(ProbeBlk(<<>>)), ProbeTarget, "Jump", j, u) :
              j \in JmpTerms, u \in {None} \cup {Some(x) : x \in JmpTerms}}

InitPure ==
    /\ New({GraphE2E})
    /\ default_value = None
    /\ priority = [n \in NodesOf(graph) |-> n]

ProbeMerge ==
    /\ probe = NoProbe
    /\ \E val1 \in NodeValues, val2 \in NodeValues :
           probe' = [op |-> "merge", val1 |-> val1, val2 |-> val2,
                     out |-> merge(val1, val2)]
    /\ UNCHANGED <<graph, priority, default_value, node_values, worklist, pc,
                   max_steps, steps, non_stabilized, calls, last, hist>>

ProbeMergeOption ==
    /\ probe = NoProbe
    /\ \E opt1 \in OptionT, opt2 \in OptionT :
           probe' = [op |-> "merge_option", opt1 |-> opt1, opt2 |-> opt2,
                     out |-> merge_option(opt1, opt2)]
    /\ UNCHANGED <<graph, priority, default_value, node_values, worklist, pc,
                   max_steps, steps, non_stabilized, calls, last, hist>>

ProbeUpdateEdge ==
    /\ probe = NoProbe
    /\ \E g \in ProbeGraphs, node_value \in NodeValues :
           probe' = [op |-> "update_edge", g |-> g, value |-> node_value,
                     out |-> update_edge(g, node_value, 1)]
    /\ UNCHANGED <<graph, priority, default_value, node_values, worklist, pc,
                   max_steps, steps, non_stabilized, calls, last, hist>>

NextPure == ProbeMerge \/ ProbeMergeOption \/ ProbeUpdateEdge

SpecPure == InitPure /\ [][NextPure]_vars

----------------------------------------------------------------------------
(* Properties of the pure functions, checked under SpecPure.               *)

IsMergeProbe == probe.op = "merge"
IsEdgeProbe(kind) == probe.op = "update_edge" /\ probe.g.edges[1].kind = kind

(* the slot a component-wise merge of two optional parts must produce     *)
SlotOf(x, y) ==
    IF IsSome(x) /\ IsSome(y)
    THEN Some(Max(Unwrap(x), Unwrap(y)))
    ELSE IF IsSome(x) THEN x ELSE y

(* C2: merging two Split values is component-wise in the call slot and in  *)
(* the return slot: both present gives the Context's merge (max), one      *)
(* present gives that value, none present gives an absent slot; so         *)
(* {a, -} with {-, b} is {a, b} and {a, -} with {c, -} is {merge(a,c), -}. *)
C2_SplitMergeComponentwise ==
    (IsMergeProbe /\ IsCombinator(probe.val1) /\ IsCombinator(probe.val2))
        => /\ ~probe.out.panic
           /\ IsCombinator(probe.out.val)
           /\ probe.out.val.call = SlotOf(probe.val1.call, probe.val2.call)
           /\ probe.out.val.return_
                  = SlotOf(probe.val1.return_, probe.val2.return_)
           /\ (/\ IsNone(probe.val1.return_)
               /\ IsNone(probe.val2.call)
               /\ IsSome(probe.val1.call)
               /\ IsSome(probe.val2.return_))
                  => probe.out.val
                         = CallReturnCombinator(probe.val1.call,
                                                probe.val2.return_)

C2_Witness ==
    /\ IsMergeProbe
    /\ probe.val1 = CallReturnCombinator(Some(5), None)
    /\ probe.val2 = CallReturnCombinator(None, Some(3))
    /\ probe.out = Ok(CallReturnCombinator(Some(5), Some(3)))

(* C3: a combine edge out of a combinator holding Split{call, return}      *)
(* invokes update_return exactly once, with the return part as value and   *)
(* the call part as value_before_call (absent parts passed as absent), the *)
(* call term of the edge and the first jump of the combinator's return     *)
(* block; the result is Plain(v) if update_return yields v, else no value. *)
C3_CombineInvokesUpdateReturn ==
    (IsEdgeProbe("CRCombine") /\ IsCombinator(probe.value))
        => /\ ~probe.out.panic
           /\ Len(probe.out.calls) = 1
           /\ LET c == probe.out.calls[1]
              IN /\ c.fn = "update_return"
                 /\ c.value = probe.value.return_
                 /\ c.value_before_call = probe.value.call
                 /\ c.call_term = probe.g.edges[1].term
                 /\ c.return_term = Head(probe.g.nodes[1].return_.jmps)
                 /\ c.result = context_update_return(c.value,
                        c.value_before_call, c.call_term, c.return_term)
                 /\ probe.out.val = IF IsSome(c.result)
                                    THEN Some(Value(Unwrap(c.result)))
                                    ELSE None

C3_Witness ==
    /\ IsEdgeProbe("CRCombine")
    /\ probe.value = CallReturnCombinator(Some(5), Some(3))
    /\ probe.g.nodes[1].return_.jmps = <<"ret_f", "ret_dead">>
    /\ probe.out.calls
           = <<CallReturn(Some(3), Some(5), "call_f", "ret_f", Some(8))>>
    /\ probe.out.val = Some(Value(8))

(* the accumulator after the first i statements, while none declines      *)
RECURSIVE AccAfter(_, _, _)
AccAfter(value, defs, i) ==
    IF i = 0
    THEN value
    ELSE Unwrap(context_update_def(AccAfter(value, defs, i - 1), defs[i]))

(* statement k is the first one that declines                              *)
RECURSIVE PassesUpTo(_, _, _)
PassesUpTo(value, defs, i) ==
    IF i = 0
    THEN TRUE
    ELSE /\ PassesUpTo(value, defs, i - 1)
         /\ IsSome(context_update_def(AccAfter(value, defs, i - 1), defs[i]))

FirstDecline(value, defs, k) ==
    /\ k \in 1..Len(defs)
    /\ PassesUpTo(value, defs, k - 1)
    /\ IsNone(context_update_def(AccAfter(value, defs, k - 1), defs[k]))

(* C4: a block edge folds update_def over the statements from left to      *)
(* right starting at the source's Plain value: if the k-th statement       *)
(* declines the result is no value and update_def is invoked for the       *)
(* statements 1..k only; if none declines (also for an empty block) the    *)
(* result is Plain of the final accumulator.                               *)
C4_BlockFoldShortCircuits ==
    (IsEdgeProbe("Block") /\ IsValue(probe.value))
        => LET defs == probe.g.nodes[1].block.defs
               v == probe.value.value
               log == probe.out.calls
           IN /\ ~probe.out.panic
              /\ \A i \in 1..Len(log) :
                     /\ log[i].fn = "update_def"
                     /\ log[i].def = defs[i]
                     /\ log[i].value = AccAfter(v, defs, i - 1)
              /\ \A k \in 1..Len(defs) :
                     FirstDecline(v, defs, k)
                         => Len(log) = k /\ probe.out.val = None
              /\ PassesUpTo(v, defs, Len(defs))
                     => /\ Len(log) = Len(defs)
                        /\ probe.out.val
                               = Some(Value(AccAfter(v, defs, Len(defs))))

C4_Witness ==
    /\ IsEdgeProbe("Block")
    /\ probe.value = Value(3)
    /\ probe.g.nodes[1].block.defs = <<"inc", "dead", "inc">>
    /\ Len(probe.out.calls) = 2
    /\ probe.out.val = None

PlainSourceKinds ==
    {"Block", "Call", "CRCallStub", "CRReturnStub", "ExternCallStub", "Jump"}

(* C8: merging a Plain with a Split value, in either order, is a fatal     *)
(* error that produces no value; every edge kind that needs a Plain        *)
(* source fails fatally on a Split source, without a value and without     *)
(* any Context call.                                                       *)
C8_VariantMismatchIsFatal ==
    /\ (IsMergeProbe /\ probe.val1.kind # probe.val2.kind)
           => probe.out.panic /\ "val" \notin DOMAIN probe.out
    /\ (/\ probe.op = "update_edge"
        /\ probe.g.edges[1].kind \in PlainSourceKinds
        /\ IsCombinator(probe.value))
           => /\ probe.out.panic
              /\ "val" \notin DOMAIN probe.out
              /\ probe.out.calls = <<>>

C8_Witness ==
    /\ IsEdgeProbe("CRReturnStub")
    /\ probe.value = CallReturnCombinator(Some(5), None)
    /\ probe.out.panic

----------------------------------------------------------------------------
(* Properties of the computation, checked under Spec and SpecE2E.          *)

ComputeHasReturned == last.op = "compute_return"

(* the fixpoint equation at edge e for the stored node values              *)
FixpointAt(e) ==
    LET u == graph.edges[e].src
        v == graph.edges[e].dst
    IN IsSome(node_values[u])
           => LET r == update_edge(graph, Unwrap(node_values[u]), e)
              IN (~r.panic /\ IsSome(r.val))
                     => /\ IsSome(node_values[v])
                        /\ merge(Unwrap(node_values[v]), Unwrap(r.val))
                               = Ok(Unwrap(node_values[v]))

(* C1 as stated: when compute() has returned and has_stabilized() holds,   *)
(* every edge u -> v whose transition yields x from the value of u has     *)
(* merge(value[v], x) = value[v].                                          *)
C1_FixpointAfterCompute ==
    (ComputeHasReturned /\ has_stabilized)
        => \A e \in EdgesOf(graph) : FixpointAt(e)

(* C1 amended: the same, for computations whose node values were set by    *)
(* set_node_value only before the first compute run started.               *)
C1_FixpointWhenSeededBeforeRuns ==
    (ComputeHasReturned /\ has_stabilized /\ ~hist.set_after_run)
        => \A e \in EdgesOf(graph) : FixpointAt(e)

C1_Witness ==
    /\ ComputeHasReturned
    /\ has_stabilized
    /\ ~hist.set_after_run
    /\ hist.seeds = {<<1, Value(5)>>}
    /\ \A n \in NodesOf(graph) : IsSome(node_values[n])
    /\ \A e \in EdgesOf(graph) : FixpointAt(e)

(* C5: on the two-procedure graph, with the caller's pre-call value seeded *)
(* with 5 and the callee's exit with 3, compute() ends with the post-call  *)
(* node holding Plain(8).                                                  *)
C5_EndToEnd ==
    (/\ ComputeHasReturned
     /\ hist.seeds = {<<1, Value(5)>>, <<3, Value(3)>>}
     /\ ~hist.set_after_run)
        => get_node_value(5) = Some(Value(8))

C5_Witness ==
    /\ ComputeHasReturned
    /\ hist.seeds = {<<1, Value(5)>>, <<3, Value(3)>>}
    /\ ~hist.set_after_run
    /\ get_node_value(4) = Some(CallReturnCombinator(Some(5), Some(3)))
    /\ get_node_value(5) = Some(Value(8))

(* only block nodes were seeded, and with Plain values                     *)
SeededPlainOnBlocks ==
    \A s \in hist.seeds : IsBlockNode(graph, s[1]) /\ IsValue(s[2])

(* C6: on a well-formed graph whose block nodes are seeded with Plain      *)
(* values, with or without a default value, every block node that has a    *)
(* value holds a Plain value and every combinator node that has a value    *)
(* holds a Split value.                                                    *)
C6_NodeVariantInvariant ==
    (WellFormed(graph) /\ SeededPlainOnBlocks)
        => \A n \in NodesOf(graph) :
               IsSome(get_node_value(n))
                   => IF IsCombinatorNode(graph, n)
                      THEN IsCombinator(Unwrap(get_node_value(n)))
                      ELSE IsValue(Unwrap(get_node_value(n)))

(* C7: processing a combinator node that holds a Plain value aborts the    *)
(* computation at the combine edge: update_return is not called, no node   *)
(* value is written, and nothing runs after the abort.                     *)
C7_PlainAtCombinatorAborts ==
    [][/\ (/\ last'.op = "update_node"
           /\ IsCombinatorNode(graph, last'.node)
           /\ IsSome(node_values[last'.node])
           /\ IsValue(Unwrap(node_values[last'.node])))
              => /\ pc' = "aborted"
                 /\ node_values' = node_values
                 /\ calls' = <<>>
       /\ pc = "aborted" => UNCHANGED vars]_vars

C7_Witness ==
    /\ pc = "aborted"
    /\ last.op = "update_node"
    /\ IsCombinatorNode(graph, last.node)
    /\ node_values[last.node] = Some(Value(5))
    /\ hist.seeds = {<<1, Value(5)>>, <<5, Value(5)>>}
    /\ IsNone(node_values[6])

(* C9: compute_with_max_steps(n) updates each node at most n times, and    *)
(* with n = 0 it changes no node value.                                    *)
C9_BoundedUpdates ==
    [][pc = "bounded"
          => /\ \A n \in NodesOf(graph) : hist'.updates[n] <= hist.requested
             /\ hist.requested = 0 => node_values' = node_values]_vars

C9_Witness ==
    /\ pc = "bounded"
    /\ hist.requested = 0
    /\ last.op = "skip_node"
    /\ worklist = {}
    /\ node_values[1] = Some(Value(5))
    /\ \A n \in NodesOf(graph) \ {1} : IsNone(node_values[n])

(* C10 as stated: has_stabilized() is true only after compute() has        *)
(* returned.                                                               *)
C10_StabilizedOnlyAfterCompute == has_stabilized => hist.compute_returned

(* C10 amended: has_stabilized() reports exactly that the worklist is      *)
(* empty; it is true when compute() has just returned and false after a    *)
(* compute_with_max_steps run that left worklist entries pending.          *)
C10_StabilizedIsEmptyWorklist ==
    /\ has_stabilized <=> worklist = {}
    /\ ComputeHasReturned => has_stabilized
    /\ (last.op = "bounded_return" /\ worklist # {}) => ~has_stabilized

C10_Witness ==
    /\ last.op = "bounded_return"
    /\ worklist # {}
    /\ ~has_stabilized
    /\ ~hist.compute_returned

(* the last step updated a node that set_node_value had queued             *)
UpdatesPending ==
    /\ last'.op = "update_node"
    /\ IsSome(hist.pending[last'.node])

(* every edge traversal of the last node update started from value v       *)
TraceStartsFrom(trace, v) == \A i \in 1..Len(trace) : trace[i].value = v

(* set_node_value(node, value) as the caller observes it: get_node_value   *)
(* returns the value, has_stabilized() is false, no other node changed     *)
SetNodeValueEffect(node, value) ==
    /\ get_node_value(node)' = Some(value)
    /\ ~has_stabilized'
    /\ \A m \in NodesOf(graph) \ {node} : node_values'[m] = node_values[m]

(* C11 as stated: set_node_value(node, v) makes get_node_value(node)       *)
(* return v, makes has_stabilized() false and changes no other node; the   *)
(* next compute() processes the outgoing edges of the node with v.         *)
C11_SetThenReprocessedWithV ==
    [][/\ \A seed \in graph.seeds :
              SetNodeValue(seed[1], seed[2])
                  => SetNodeValueEffect(seed[1], seed[2])
       /\ (UpdatesPending /\ pc = "compute")
              => /\ last'.trace # <<>>
                 /\ TraceStartsFrom(last'.trace,
                                    Unwrap(hist.pending[last'.node]))]_vars

(* C11 amended: set_node_value(node, v) makes get_node_value(node) return  *)
(* v, makes has_stabilized() false and changes no other node; the node     *)
(* stays queued until a run updates it, and that update processes its      *)
(* outgoing edges with the value the node then holds, which is v with the  *)
(* values propagated into it since the call merged in.                     *)
C11_SetThenReprocessedWithStored ==
    [][/\ \A seed \in graph.seeds :
              SetNodeValue(seed[1], seed[2])
                  => SetNodeValueEffect(seed[1], seed[2])
       /\ \A n \in NodesOf(graph) :
              IsSome(hist'.pending[n]) => n \in worklist' \cup non_stabilized'
       /\ UpdatesPending
              => LET node == last'.node
                     v == Unwrap(hist.pending[node])
                     stored == Unwrap(node_values[node])
                 IN /\ IsSome(node_values[node])
                    /\ merge(stored, v) = Ok(stored)
                    /\ last'.trace # <<>>
                    /\ TraceStartsFrom(last'.trace, stored)
                    /\ \/ Len(last'.trace) = Len(OutEdges(graph, node))
                       \/ pc' = "aborted"]_vars

(* after stabilization node 1 is set to Plain(5); the next compute()       *)
(* updates its outgoing edge from Plain(5)                                 *)
C11_Witness ==
    /\ hist.compute_returned
    /\ hist.set_after_run
    /\ hist.seeds = {<<6, Value(3)>>, <<1, Value(5)>>}
    /\ pc = "compute"
    /\ last.op = "update_node"
    /\ last.node = 1
    /\ last.trace # <<>>
    /\ TraceStartsFrom(last.trace, Value(5))
    /\ node_values[2] = Some(Value(6))

----------------------------------------------------------------------------
(* A single-procedure forward dataflow solver over T: round-robin passes   *)
(* over the edges until no value changes.                                  *)

RECURSIVE dataflow_block(_, _, _)
dataflow_block(value, defs, i) ==
    IF i > Len(defs)
    THEN Some(value)
    ELSE LET r == context_update_def(value, defs[i])
         IN IF IsNone(r) THEN None ELSE dataflow_block(Unwrap(r), defs, i + 1)

dataflow_transfer(g, e, value) ==
    LET edge == g.edges[e]
    IN IF edge.kind = "Block"
       THEN dataflow_block(value, g.nodes[edge.src].block.defs, 1)
       ELSE context_update_jump(value, edge.term, edge.untaken,
                                g.nodes[edge.dst].block.tid)

dataflow_join(old, new) ==
    IF IsNone(new) THEN old
    ELSE IF IsNone(old) THEN new
    ELSE Some(context_merge(Unwrap(old), Unwrap(new)))

RECURSIVE dataflow_pass(_, _, _)
dataflow_pass(g, values, e) ==
    IF e > Len(g.edges)
    THEN values
    ELSE LET in == values[g.edges[e].src]
             out == IF IsSome(in) THEN dataflow_transfer(g, e, Unwrap(in))
                    ELSE None
         IN dataflow_pass(g, [values EXCEPT ![g.edges[e].dst]
                                                = dataflow_join(@, out)],
                          e + 1)

RECURSIVE dataflow_solve(_, _)
dataflow_solve(g, values) ==
    LET next == dataflow_pass(g, values, 1)
    IN IF next = values THEN values ELSE dataflow_solve(g, next)

(* the graph has ordinary block edges and jump edges only                  *)
OnlyBlockAndJump(g) ==
    \A e \in EdgesOf(g) : g.edges[e].kind \in {"Block", "Jump"}

(* every seeded node was given one Plain value                             *)
SeededOncePlain ==
    \A s1 \in hist.seeds :
        /\ IsValue(s1[2])
        /\ \A s2 \in hist.seeds : s1[1] = s2[1] => s1 = s2

(* the seeds as the start values of the dataflow solver                    *)
SeedsAsT ==
    [n \in NodesOf(graph) |->
        IF \E s \in hist.seeds : s[1] = n
        THEN Some((CHOOSE s \in hist.seeds : s[1] = n)[2].value)
        ELSE None]

(* C12: on a graph with block and jump edges only, seeded before the run,  *)
(* the node values when compute() has returned are, node by node, the      *)
(* Plain values of the dataflow solver's result for the same seeds.        *)
C12_IntraEqualsDataflow ==
    (/\ ComputeHasReturned
     /\ OnlyBlockAndJump(graph)
     /\ SeededOncePlain
     /\ ~hist.set_after_run)
        => LET reference == dataflow_solve(graph, SeedsAsT)
           IN \A n \in NodesOf(graph) :
                  node_values[n] = MapValue(reference[n])

(* seeds 5 at the loop head and 3 in the loop: the loop holds 5, the       *)
(* branch has counted up to 6, the exit jump was never taken               *)
C12_Witness ==
    /\ ComputeHasReturned
    /\ OnlyBlockAndJump(graph)
    /\ ~hist.set_after_run
    /\ hist.seeds = {<<1, Value(5)>>, <<5, Value(3)>>}
    /\ node_values[6] = Some(Value(5))
    /\ node_values[4] = Some(Value(6))
    /\ node_values[7] = Some(Value(6))
    /\ IsNone(node_values[8])
    /\ dataflow_solve(graph, SeedsAsT)[7] = Some(6)

----------------------------------------------------------------------------
(* Call sites and their combinator nodes, checked under SpecTwoSites.      *)

(* the call site whose call stub leads into combinator node c              *)
CallSiteOf(g, c) ==
    g.edges[CHOOSE e \in EdgesOf(g) :
                g.edges[e].kind = "CRCallStub" /\ g.edges[e].dst = c].src

CombineEdges(g) == {e \in EdgesOf(g) : g.edges[e].kind = "CRCombine"}

(* the values set_node_value has given to node n                           *)
SeededAt(n) == {s[2] : s \in {x \in hist.seeds : x[1] = n}}

(* C13: with two call sites of one callee, each with its own combinator,   *)
(* the value_before_call of every update_return invoked on a combine edge  *)
(* is absent or a pre-call value of the call site of that combinator, never *)
(* one of the other call site; and the post-call node of a call site       *)
(* changes only when its own combinator is updated, to the result of that  *)
(* update_return merged into it.                                           *)
C13_NoCallSiteAliasing ==
    [][\A e \in CombineEdges(graph) :
          LET combinator == graph.edges[e].src
              post == graph.edges[e].dst
              site == CallSiteOf(graph, combinator)
              returns == {i \in 1..Len(calls') :
                             /\ calls'[i].fn = "update_return"
                             /\ calls'[i].call_term = graph.edges[e].term}
          IN /\ \A i \in returns :
                    /\ last'.node = combinator
                    /\ IsSome(calls'[i].value_before_call)
                           => Value(Unwrap(calls'[i].value_before_call))
                                  \in SeededAt(site)
             /\ node_values'[post] # node_values[post]
                    => /\ last'.op = "update_node"
                       /\ last'.node = combinator
                       /\ \E i \in returns :
                              /\ IsSome(calls'[i].result)
                              /\ LET x == Value(Unwrap(calls'[i].result))
                                 IN node_values'[post]
                                        = IF IsSome(node_values[post])
                                          THEN Some(merge(x,
                                                   Unwrap(node_values[post])).val)
                                          ELSE Some(x)]_vars

(* call site 1 holds 1, call site 2 holds 2, the callee returns 2 to both: *)
(* the post-call nodes hold 1 + 2 and 2 + 2                                *)
C13_Witness ==
    /\ ComputeHasReturned
    /\ hist.seeds = {<<1, Value(1)>>, <<2, Value(2)>>}
    /\ node_values[5] = Some(CallReturnCombinator(Some(1), Some(2)))
    /\ node_values[6] = Some(CallReturnCombinator(Some(2), Some(2)))
    /\ node_values[7] = Some(Value(3))
    /\ node_values[8] = Some(Value(4))

----------------------------------------------------------------------------
(* C14: a call stub edge from a source holding Plain(v) yields             *)
(* Split{call: v, return: absent}, a return stub edge yields               *)
(* Split{call: absent, return: v}; neither invokes the Context and         *)
(* neither yields no value.                                                *)
C14_StubsFillOneSlot ==
    (probe.op = "update_edge" /\ IsValue(probe.value))
        => LET v == probe.value.value
           IN /\ IsEdgeProbe("CRCallStub")
                    => probe.out
                           = EdgeOk(Some(CallReturnCombinator(Some(v), None)),
                                    <<>>)
              /\ IsEdgeProbe("CRReturnStub")
                    => probe.out
                           = EdgeOk(Some(CallReturnCombinator(None, Some(v))),
                                    <<>>)

C14_Witness ==
    /\ IsEdgeProbe("CRCallStub")
    /\ probe.value = Value(0)
    /\ probe.out.val = Some(CallReturnCombinator(Some(0), None))
    /\ probe.out.calls = <<>>

----------------------------------------------------------------------------
(* Declined transitions, checked under SpecDeclines.                       *)

(* the last Context method that the edge update r invoked declined         *)
ContextDeclined(r) ==
    /\ r.calls # <<>>
    /\ IsNone(r.calls[Len(r.calls)].result)

(* entry i of the trace of a node update is an edge that yielded no value  *)
DeclinedAt(trace, i) == ~trace[i].panic /\ IsNone(trace[i].result)

(* C15: when the Context method of an edge (update_call,                   *)
(* update_call_stub, update_jump, update_return, or an update_def of the   *)
(* fold) returns no value, the edge update yields no value and no error,   *)
(* the solver leaves every node value and the worklist as they are on      *)
(* that edge, and the node update goes on with the remaining edges and     *)
(* leaves the remaining worklist entries queued.                           *)
C15_DeclineStopsThatEdgeOnly ==
    [][/\ \A e \in EdgesOf(graph) :
              LET u == graph.edges[e].src
              IN IsSome(node_values[u])
                     => LET r == update_edge(graph, Unwrap(node_values[u]), e)
                            st == SolverState(node_values, worklist)
                            st2 == solver_update_edge(graph, st, e)
                        IN ContextDeclined(r)
                               => /\ ~r.panic
                                  /\ IsNone(r.val)
                                  /\ ~st2.panic
                                  /\ st2.node_values = node_values
                                  /\ st2.worklist = worklist
       /\ last'.op = "update_node"
              => \A i \in 1..Len(last'.trace) :
                     DeclinedAt(last'.trace, i)
                         => LET target == graph.edges[last'.trace[i].edge].dst
                            IN /\ (\A j \in 1..Len(last'.trace) :
                                       ~last'.trace[j].panic)
                                      => /\ pc' = pc
                                         /\ Len(last'.trace)
                                                = Len(OutEdges(graph, last'.node))
                               /\ (worklist \ {last'.node}) \subseteq worklist'
                               /\ (\A j \in 1..Len(last'.trace) :
                                       graph.edges[last'.trace[j].edge].dst = target
                                           => DeclinedAt(last'.trace, j))
                                      => node_values'[target] = node_values[target]]_vars

(* the update of the last block: the external call and the jump "never"    *)
(* decline and leave the seeded exit node as it was, the jump "goto"       *)
(* between them is taken, and the run goes on                              *)
C15_Witness ==
    /\ pc = "compute"
    /\ last.op = "update_node"
    /\ last.node = 7
    /\ Len(last.trace) = 3
    /\ DeclinedAt(last.trace, 1)
    /\ ~DeclinedAt(last.trace, 2)
    /\ DeclinedAt(last.trace, 3)
    /\ node_values[8] = Some(Value(5))
    /\ node_values[1] = Some(Value(3))
    /\ 1 \in worklist

----------------------------------------------------------------------------
(* C16: on a graph with a call/return cycle through a combinator node      *)
(* (recursion), over the finite domain T with merge = max and monotone     *)
(* transitions, every compute() that was called eventually returns, and    *)
(* has_stabilized() is then true.                                          *)
C16_ComputeTerminates ==
    (pc = "compute") ~> (ComputeHasReturned /\ has_stabilized)

(* compute() has returned after the values went round the recursion up to  *)
(* the top of the domain                                                   *)
C16_Witness ==
    /\ ComputeHasReturned
    /\ has_stabilized
    /\ hist.seeds = {<<1, Value(1)>>}
    /\ node_values[1] = Some(Value(TMax))
    /\ node_values[3] = Some(CallReturnCombinator(Some(TMax), Some(TMax)))
    /\ node_values[5] = Some(Value(TMax))

----------------------------------------------------------------------------
(* Split values at combinator nodes, checked under SpecE2E.                *)

CombinatorNodes(g) == {n \in NodesOf(g) : IsCombinatorNode(g, n)}

(* set_node_value was never called on a combinator node                    *)
NoCombinatorSeeds(seeds) ==
    \A s \in seeds : ~IsCombinatorNode(graph, s[1])

(* C17: while no combinator node was written by set_node_value, every      *)
(* value stored at a combinator node is a Split value with at least one    *)
(* part present, a part that is present stays present in the next state,   *)
(* and no update_return is invoked with both arguments absent.             *)
C17_SplitPartsOnlyGrow ==
    [][NoCombinatorSeeds(hist'.seeds)
          => /\ \A n \in CombinatorNodes(graph) :
                    IsSome(node_values'[n])
                        => LET new == Unwrap(node_values'[n])
                           IN /\ IsCombinator(new)
                              /\ IsSome(new.call) \/ IsSome(new.return_)
             /\ \A n \in CombinatorNodes(graph) :
                    IsSome(node_values[n])
                        => LET old == Unwrap(node_values[n])
                               new == Unwrap(node_values'[n])
                           IN /\ IsSome(node_values'[n])
                              /\ IsSome(old.call) => IsSome(new.call)
                              /\ IsSome(old.return_) => IsSome(new.return_)
             /\ \A i \in 1..Len(calls') :
                    calls'[i].fn = "update_return"
                        => \/ IsSome(calls'[i].value)
                           \/ IsSome(calls'[i].value_before_call)]_vars

(* the return stub reached the combinator first: the Split value has the   *)
(* return part only and update_return is invoked without value_before_call *)
C17_Witness ==
    /\ NoCombinatorSeeds(hist.seeds)
    /\ hist.seeds = {<<1, Value(5)>>, <<3, Value(3)>>}
    /\ last.op = "update_node"
    /\ last.node = 4
    /\ node_values[4] = Some(CallReturnCombinator(None, Some(3)))
    /\ calls = <<CallReturn(Some(3), None, "call_f", "ret_f", Some(3))>>
    /\ 1 \in worklist

----------------------------------------------------------------------------
(* Order independence, checked under SpecOrder: the run of compute() from  *)
(* one state under every order of the nodes.                               *)

(* every node_priority_list: the bijections from the nodes to 1..n         *)
Orders(g) ==
    {prio \in [NodesOf(g) -> 1..Len(g.nodes)] :
        \A a, b \in NodesOf(g) : a # b => prio[a] # prio[b]}

(* compute() run to its end from solver state st, taking the worklist      *)
(* entries in the order prio                                               *)
RECURSIVE compute_result(_, _, _)
compute_result(g, st, prio) ==
    IF st.panic \/ st.worklist = {}
    THEN st
    ELSE LET node == next_back(st.worklist, prio)
         IN compute_result(
                g,
                solver_update_node(
                    g, SolverState(st.node_values, st.worklist \ {node}), node),
                prio)

(* the result of the compute() that was just called, under order prio      *)
ResultUnder(prio) ==
    compute_result(graph, SolverState(node_values, worklist), prio)

(* compute() was called and has not yet updated a node                     *)
ComputeCalled == pc = "compute" /\ last.op = "compute"

(* C18: when compute() is called, the node values it stabilizes with       *)
(* (Split values at the combinator node and post-call value included) are  *)
(* the same under every order in which the worklist can process the nodes. *)
C18_OrderIndependent ==
    ComputeCalled
        => \A r2 \in {ResultUnder(priority)} :
               \A p1 \in Orders(graph) :
                   \A r1 \in {ResultUnder(p1)} :
                       (~r1.panic /\ ~r2.panic)
                           => /\ r1.worklist = {}
                              /\ r1.node_values = r2.node_values

(* call site seeded with 3, callee exit with 5: in one order the return    *)
(* stub reaches the combinator first, in the other the call stub; both     *)
(* end with Split{3, 5} and Plain(8) after the call                        *)
C18_Witness ==
    /\ ComputeCalled
    /\ hist.seeds = {<<1, Value(3)>>, <<3, Value(5)>>}
    /\ worklist = {1, 3}
    /\ \E p1, p2 \in Orders(graph) :
           /\ next_back(worklist, p1) = 1
           /\ next_back(worklist, p2) = 3
           /\ ResultUnder(p1).node_values = ResultUnder(p2).node_values
           /\ ResultUnder(p1).node_values[4]
                  = Some(CallReturnCombinator(Some(3), Some(5)))
           /\ ResultUnder(p1).node_values[5] = Some(Value(8))

====
